---- MODULE Spec2Model ----
(***************************************************************************)
(* Model of layer-websdk's ClientAuthenticator (src/src/client-            *)
(* authenticator.js): the connect / authenticate / ready session machine,  *)
(* the request/response path (_nonsyncXhr, _xhrResult) and the hand-over   *)
(* of queued operations to the sync manager (_syncXhr).                    *)
(*                                                                         *)
(* A client is one object; its handlers run to completion on one thread,   *)
(* so every action below is one whole handler (an API call, an xhr         *)
(* response, a timer).                                                     *)
(***************************************************************************)
EXTENDS Integers, Sequences, FiniteSets, TLC

\* ---------------------------------------------------------------- bounds
\* number of sync:false requests that exist at the same time
MaxXhr == 1
\* number of requests held by the sync manager at the same time
MaxQueue == 1
\* number of pending connectWithSession timers
MaxTimers == 1
\* number of times one queued operation is dispatched by the sync manager
MaxDispatch == 2

\* number of operations held by the sync manager when their order is
\* followed
MaxOps == 2
\* number of clients that share the databases
MaxInstances == 2
\* number of record ids of one table of the database
MaxRec == 2
\* number of values a record can take
MaxVal == 2
\* number of callbacks waiting for the database to open
MaxWaiting == 1
\* number of keys of the table a cursor walks, and length of the list of
\* ids given to getObjects
MaxKey == 2
MaxIds == 3
\* number of callbacks waiting where their order is followed
MaxDeferred == 2

\* ------------------------------------------------------------- constants
MAX_XHR_RETRIES == 3
RETRY_DELAY == 1000

Users == {"u1", "u2"}
Tokens == {"t1"}
Nonces == {"n1"}
Slots == 1..MaxXhr
GatewayStatus == {502, 503, 504}
\* the objects an operation can have as its target
Targets == {"c1"}
RecIds == 1..MaxRec
Vals == 1..MaxVal
\* the object stores created by _onUpgradeNeeded
TableNames == {"conversations", "messages", "identities", "sync-queue"}
\* 'LayerWebSDK_' + appId + '_' + userId: one database for each user id
DbNames == Users \cup {""}

VARIABLES
  isConnected, isAuthenticated, isReady, isDestroyed,
  sessionToken, userId,
  isTrustedDevice, persistenceFeatures, dbManager,
  localStorage,
  challenge,
  authTimers,
  xhrs,
  queue,
  fired,
  ended,
  dbm,
  indexedDB,
  loaded,
  instances,
  options,
  announcement,
  conversation,
  cursor

vars == <<isConnected, isAuthenticated, isReady, isDestroyed, sessionToken,
          userId, isTrustedDevice, persistenceFeatures, dbManager,
          localStorage, challenge, authTimers, xhrs, queue, fired,
          ended, dbm, indexedDB, loaded, instances, options,
          announcement, conversation, cursor>>

\* the objects of the application
ObjectVars == <<announcement, conversation, cursor>>

\* the client, its requests and its DbManager
ClientVars ==
  <<isConnected, isAuthenticated, isReady, isDestroyed, sessionToken,
    userId, isTrustedDevice, persistenceFeatures, dbManager, localStorage,
    challenge, authTimers, xhrs, queue, fired, ended, dbm, loaded>>

\* ------------------------------------------------------------ data types
NoSession == [sessionToken |-> "", userId |-> "", expired |-> FALSE]

\* an event handed to Root.trigger
Ev(name) == [name |-> name, nonce |-> ""]
Challenge(nonce) == [name |-> "challenge", nonce |-> nonce]

\* a request.  kind: "nonces" (POST /nonces), "sessions" (POST /sessions),
\* "push" (a sync:false request of the application), "op" (a request held
\* by the sync manager).  st: "free", "inflight", "timer" (waiting for the
\* retry timeout), "queued".  attempts counts the times it was sent.
\* target, given and depends are those of options.sync: the target, whether
\* the caller gave depends, and the depends the request is queued with.
\* st "blocked": a queued request that waits for one that was aborted.
FreeSlot ==
  [kind |-> "none", st |-> "free", retryCount |-> 0, attempts |-> 0,
   delay |-> 0, target |-> "", given |-> FALSE, depends |-> {}]

NewXhr(kind, st) ==
  [kind |-> kind, st |-> st, retryCount |-> 0, attempts |-> 0,
   delay |-> 0, target |-> "", given |-> FALSE, depends |-> {}]

\* options.sync of a request: target ("" for none), depends (given or not)
SyncOptions ==
  [target : Targets \cup {""}, given : BOOLEAN, depends : SUBSET Targets]

\* what a step did to a request: the request it ended (kind "none" if it
\* ended none), how often that request had been sent, and the status of
\* the result the step gave to the request's callback (0 if it called none)
NoEnd == [kind |-> "none", attempts |-> 0, cb |-> 0]

\* the result object the xhr library hands to its callback
OkResult(nonce, token) ==
  [status |-> 200, success |-> TRUE, isObject |-> TRUE, nonce |-> nonce,
   token |-> token]
FailResult(status, isObject, nonce) ==
  [status |-> status, success |-> FALSE, isObject |-> isObject,
   nonce |-> nonce, token |-> ""]
NoResult == FailResult(0, FALSE, "")

\* the results a request of the given kind can receive
Results(kind) ==
  (CASE kind = "nonces" -> {OkResult(n, "") : n \in Nonces \cup {""}}
     [] kind = "sessions" -> {OkResult("", t) : t \in Tokens \cup {""}}
     [] OTHER -> {OkResult("", "")})
  \cup {FailResult(s, TRUE, "") : s \in {404} \cup GatewayStatus}
  \cup {FailResult(401, FALSE, "")}
  \cup {FailResult(401, TRUE, n) : n \in Nonces \cup {""}}

Kinds == {"nonces", "sessions", "push", "op"}
AllResults == UNION {Results(k) : k \in Kinds}

\* persistenceFeatures: null (defined = FALSE) or an object; sessionToken is
\* its sessionToken flag, tables stands for its indexedDB flags
NullFeatures == [defined |-> FALSE, sessionToken |-> FALSE, tables |-> FALSE]
Features(s, t) == [defined |-> TRUE, sessionToken |-> s, tables |-> t]

\* the fields of the DbManager of the client: name is the user id in the
\* name of the database it opened, opening tells that its open request is
\* pending, waiting are the callbacks given to once('open')
NoDbManager ==
  [name |-> "", isOpen |-> FALSE, isDisabled |-> FALSE, opening |-> FALSE,
   waiting |-> <<>>]

\* a table: the value stored under each record id, 0 where there is none
EmptyTable == [id \in RecIds |-> 0]
EmptyDb == [tn \in TableNames |-> EmptyTable]

\* what each client that shares the databases knows of each record of the
\* operation queue: "none", "recovered" (loaded at startup), "won" (its
\* claim found the record), "lost" (its claim found it gone, the request is
\* discarded), "sent" (it dispatched the request)
Instances == 1..MaxInstances
NoInstances == [i \in Instances |-> [id \in RecIds |-> "none"]]

\* the names of the headers of a request, as the caller may spell them
HeaderNames ==
  {"Accept", "accept", "Content-Type", "content-type", "Authorization",
   "authorization", "X-Tag", "x-tag"}

\* the value of a header: Absent for a name the object does not have, ""
\* for the empty string
Absent == "absent"
HeaderValues == {"", "a", "b"}
Headers == [HeaderNames -> HeaderValues \cup {Absent}]

\* the ACCEPT of ./const
ACCEPT == "ACCEPT"

\* options of the request xhr() was called with: given are the headers of
\* the caller, fixed those that _xhrFixHeaders leaves, headers those that
\* reach the transport; called tells whether xhr() was called
NoOptions ==
  [called |-> FALSE, given |-> [n \in HeaderNames |-> Absent],
   fixed |-> [n \in HeaderNames |-> Absent],
   headers |-> [n \in HeaderNames |-> Absent]]

\* an announcement: created tells whether the client has it, last is the
\* method that was called on it last, threw the error that call raised,
\* loads the number of times Syncable.load was called with its id
NoAnnouncement ==
  [created |-> FALSE, syncState |-> "NEW", isDestroyed |-> FALSE,
   last |-> "none", threw |-> "", loads |-> 0]

\* a conversation: the values of its properties on the client, those the
\* server holds, the request that is pending ("idle" for none, "saving" for
\* a mutation, "loading" for Conversation.load), the property the mutation
\* changed, and the conversations:change event of the last step
Properties == {"participants", "metadata"}
PropertyValues == 0..MaxVal
NoChange == [property |-> "", oldValue |-> 0, newValue |-> 0]
NewConversation ==
  [local |-> [p \in Properties |-> 0], server |-> [p \in Properties |-> 0],
   st |-> "idle", property |-> "", event |-> NoChange]

\* a call of getObjects on the open database: the keys of the records of
\* the table (a record stands for its key), ids as given, sortedIds, index
\* and results of the call, key the key the pending success event of the
\* cursor request carries (0 for a null cursor), calls the number of times
\* callback was invoked, st "none" (no call), "open" (an event is pending),
\* "done" (no event is pending) or "threw" (the handler raised)
Keys == 1..MaxKey
IdLists == UNION {[1..n -> 1..(MaxKey + 1)] : n \in 0..MaxIds}
NoCursor ==
  [table |-> {}, ids |-> <<>>, sortedIds |-> <<>>, index |-> 0,
   results |-> <<>>, key |-> 0, calls |-> 0, st |-> "none"]

\* ------------------------------------------------- the client as a value
\* The handlers are written as functions from client to client.  fired,
\* threw, called, out and timer describe the handler that is running: the
\* events it triggered, whether it ended in an exception, whether it invoked
\* the request's callback, the request it issued and the timeout it set.
Client ==
  [isConnected |-> isConnected, isAuthenticated |-> isAuthenticated,
   isReady |-> isReady, isDestroyed |-> isDestroyed,
   sessionToken |-> sessionToken, userId |-> userId,
   isTrustedDevice |-> isTrustedDevice,
   persistenceFeatures |-> persistenceFeatures, dbManager |-> dbManager,
   localStorage |-> localStorage, challenge |-> challenge, dbm |-> dbm,
   fired |-> <<>>, threw |-> FALSE, called |-> FALSE, out |-> "none",
   timer |-> ""]

Throw(c) == [c EXCEPT !.threw = TRUE]

\* Root.trigger; the application's challenge listener keeps the nonce
trigger(c, ev) ==
  [c EXCEPT !.fired = Append(@, ev),
            !.challenge = IF ev.name = "challenge" THEN ev.nonce ELSE @]

_isPersistedSessionsDisabled(c) ==
  c.persistenceFeatures.defined /\ ~c.persistenceFeatures.sessionToken

_hasUserIdChanged(c, u) ==
  IF c.localStorage = NoSession THEN FALSE ELSE c.localStorage.userId # u

_restoreLastSession(c) ==
  IF _isPersistedSessionsDisabled(c) THEN c
  ELSE IF c.localStorage = NoSession THEN c
  ELSE IF c.localStorage.expired THEN [c EXCEPT !.localStorage = NoSession]
  ELSE [c EXCEPT !.sessionToken = c.localStorage.sessionToken]

\* DbManager defines no deleteTables method (it has logout(), which
\* nothing calls), so on a client that has a dbManager the call raises a
\* TypeError before the stored session is removed
_clearStoredData(c) ==
  IF c.dbManager THEN Throw(c) ELSE [c EXCEPT !.localStorage = NoSession]

__adjustUserId(c, u) ==
  (c.isConnected /\ c.userId # "" /\ c.userId # u) \/ c.isAuthenticated

\* this.userId = u: the property setter calls __adjustUserId for a new value
SetUserId(c, u) ==
  IF u = c.userId THEN c
  ELSE IF __adjustUserId(c, u) THEN Throw(c)
  ELSE [c EXCEPT !.userId = u]

\* DbManager's constructor: the listeners, the interval, _open()
_open(c, m) ==
  IF m.isDisabled THEN m
  ELSE [m EXCEPT !.name = c.userId, !.opening = TRUE]

DbManager(c) == _open(c, NoDbManager)

\* _clientReady that fires 'ready' on every call
_clientReady_always(c) ==
  LET c1 == IF ~c.persistenceFeatures.defined \/ ~c.isTrustedDevice
            THEN [c EXCEPT !.persistenceFeatures =
                     Features(c.isTrustedDevice, c.isTrustedDevice)]
            ELSE c
      c2 == IF ~c1.dbManager
            THEN [c1 EXCEPT !.dbManager = TRUE, !.dbm = DbManager(c1)]
            ELSE c1
  IN trigger([c2 EXCEPT !.isReady = TRUE], Ev("ready"))

_clientReady(c) ==
  LET c1 == IF ~c.persistenceFeatures.defined \/ ~c.isTrustedDevice
            THEN [c EXCEPT !.persistenceFeatures =
                     Features(c.isTrustedDevice, c.isTrustedDevice)]
            ELSE c
      c2 == IF ~c1.dbManager
            THEN [c1 EXCEPT !.dbManager = TRUE, !.dbm = DbManager(c1)]
            ELSE c1
  IN IF ~c2.isReady THEN trigger([c2 EXCEPT !.isReady = TRUE], Ev("ready"))
     ELSE c2

_authComplete(c, token) ==
  IF token = "" THEN Throw(c)
  ELSE LET c1 == [c EXCEPT !.sessionToken = token]
           c2 == IF ~_isPersistedSessionsDisabled(c1)
                 THEN [c1 EXCEPT !.localStorage =
                         [sessionToken |-> c1.sessionToken,
                          userId |-> c1.userId, expired |-> FALSE]]
                 ELSE c1
           c3 == [c2 EXCEPT !.isAuthenticated = TRUE]
       IN _clientReady(trigger(c3, Ev("authenticated")))

\* _authError that fires nothing
_authError_silent(c) == c

_authError(c) == trigger(c, Ev("authenticated-error"))

_authResponse(c, r) ==
  IF ~r.success THEN _authError(c) ELSE _authComplete(c, r.token)

_authenticate(c, nonce) ==
  IF nonce # "" THEN trigger(c, Challenge(nonce)) ELSE c

\* _connectionComplete that starts the authentication before it sets the
\* state and fires 'connected'
_connectionComplete_challengeFirst(c, r) ==
  trigger([_authenticate(c, r.nonce) EXCEPT !.isConnected = TRUE],
          Ev("connected"))

_connectionComplete(c, r) ==
  _authenticate(trigger([c EXCEPT !.isConnected = TRUE], Ev("connected")),
                r.nonce)

_connectionError(c) == trigger(c, Ev("connected-error"))

\* _connectionResponse that takes every response for a nonce
_connectionResponse_alwaysComplete(c, r) == _connectionComplete(c, r)

_connectionResponse(c, r) ==
  IF ~r.success THEN _connectionError(c) ELSE _connectionComplete(c, r)

_sessionTokenRestored(c) ==
  LET c1 == trigger([c EXCEPT !.isConnected = TRUE], Ev("connected"))
      c2 == trigger([c1 EXCEPT !.isAuthenticated = TRUE],
                    Ev("authenticated"))
  IN _clientReady(c2)

_resetSession(c) ==
  LET c1 == [c EXCEPT !.isReady = FALSE]
      c2 == IF c1.sessionToken # ""
            THEN [c1 EXCEPT !.sessionToken = "", !.localStorage = NoSession]
            ELSE c1
      c3 == [c2 EXCEPT !.isConnected = FALSE, !.isAuthenticated = FALSE]
  IN trigger(c3, Ev("deauthenticated"))

\* the callback given to xhr() for a request of this kind
Callback(c, r, kind) ==
  LET c1 == [c EXCEPT !.called = TRUE]
  IN CASE kind = "nonces" -> _connectionResponse(c1, r)
       [] kind = "sessions" -> _authResponse(c1, r)
       [] OTHER -> c1

\* _xhrResult without the assignment isAuthenticated = false
_xhrResult_keepsAuthenticated(c, r, kind) ==
  IF c.isDestroyed THEN c
  ELSE LET c1 ==
             IF ~r.success /\ r.status = 401 /\ c.isAuthenticated
             THEN LET d == trigger(c, Ev("deauthenticated"))
                  IN IF ~r.isObject THEN Throw(d)
                     ELSE _authenticate(d, r.nonce)
             ELSE c
       IN IF c1.threw THEN c1 ELSE Callback(c1, r, kind)

\* _xhrResult that reauthenticates on every 401
_xhrResult_every401(c, r, kind) ==
  IF c.isDestroyed THEN c
  ELSE LET c1 ==
             IF ~r.success /\ r.status = 401
             THEN LET d == trigger([c EXCEPT !.isAuthenticated = FALSE],
                                   Ev("deauthenticated"))
                  IN IF ~r.isObject THEN Throw(d)
                     ELSE _authenticate(d, r.nonce)
             ELSE c
       IN IF c1.threw THEN c1 ELSE Callback(c1, r, kind)

_xhrResult(c, r, kind) ==
  IF c.isDestroyed THEN c
  ELSE LET c1 ==
             IF ~r.success /\ r.status = 401 /\ c.isAuthenticated
             THEN LET d == trigger([c EXCEPT !.isAuthenticated = FALSE],
                                   Ev("deauthenticated"))
                  IN \* result.data.getNonce() exists only on the LayerError
                     \* that _generateError built from an object
                     IF ~r.isObject THEN Throw(d)
                     ELSE _authenticate(d, r.nonce)
             ELSE c
       IN IF c1.threw THEN c1 ELSE Callback(c1, r, kind)

connect(c, u) ==
  LET c1 == [c EXCEPT !.isConnected = FALSE]
      c2 == IF ~c1.isTrustedDevice \/ u = ""
               \/ _isPersistedSessionsDisabled(c1) \/ _hasUserIdChanged(c1, u)
            THEN _clearStoredData(c1) ELSE c1
      c3 == IF c2.isTrustedDevice /\ u # "" THEN _restoreLastSession(c2)
            ELSE c2
      c4 == SetUserId(c3, u)
  IN IF c2.threw THEN c2
     ELSE IF c4.threw THEN c4
     ELSE IF c4.sessionToken # "" THEN _sessionTokenRestored(c4)
     ELSE [c4 EXCEPT !.out = "nonces"]

\* connectWithSession that runs _authComplete before it returns
connectWithSession_sync(c, u, token) ==
  IF u = "" \/ token = "" THEN Throw(c)
  ELSE LET c1 == IF ~c.isTrustedDevice \/ _isPersistedSessionsDisabled(c)
                    \/ _hasUserIdChanged(c, u)
                 THEN _clearStoredData(c) ELSE c
           c2 == SetUserId(c1, u)
       IN IF c1.threw THEN c1
          ELSE IF c2.threw THEN c2
          ELSE _authComplete([c2 EXCEPT !.isConnected = TRUE], token)

connectWithSession(c, u, token) ==
  IF u = "" \/ token = "" THEN Throw(c)
  ELSE LET c1 == IF ~c.isTrustedDevice \/ _isPersistedSessionsDisabled(c)
                    \/ _hasUserIdChanged(c, u)
                 THEN _clearStoredData(c) ELSE c
           c2 == SetUserId(c1, u)
       IN IF c1.threw THEN c1
          ELSE IF c2.threw THEN c2
          ELSE [c2 EXCEPT !.isConnected = TRUE, !.timer = token]

\* identityToken: "" or the user id in its prn claim
answerAuthenticationChallenge(c, prn) ==
  IF prn = "" THEN Throw(c)
  ELSE LET c1 == SetUserId(c, prn)
       IN IF c1.threw THEN c1 ELSE [c1 EXCEPT !.out = "sessions"]

logout(c) ==
  LET c1 == IF c.isAuthenticated THEN [c EXCEPT !.out = "op"] ELSE c
  IN _clearStoredData(_resetSession(c1))


\* ------------------------------------------------------ request headers
\* String.prototype.toLowerCase on the names of the headers
toLowerCase(n) ==
  CASE n = "Accept" -> "accept"
    [] n = "Content-Type" -> "content-type"
    [] n = "Authorization" -> "authorization"
    [] n = "X-Tag" -> "x-tag"
    [] OTHER -> n

\* !value of JavaScript for a header: the name is missing or its value is
\* the empty string
Falsy(v) == v = Absent \/ v = ""

\* _xhrFixHeaders that leaves the names as they were given
_xhrFixHeaders_keepsNames(h) ==
  LET acc == IF Falsy(h["accept"]) THEN [h EXCEPT !["accept"] = ACCEPT]
             ELSE h
  IN IF Falsy(acc["content-type"])
     THEN [acc EXCEPT !["content-type"] = "application/json"]
     ELSE acc

\* _xhrFixHeaders: every name that is not lower-case is copied to its
\* lower-case name and deleted, then accept and content-type get their
\* defaults
_xhrFixHeaders(h) ==
  LET moved == {n \in HeaderNames : h[n] # Absent /\ n # toLowerCase(n)}
      low == [n \in HeaderNames |->
                IF n \in moved THEN Absent
                ELSE IF \E m \in moved : toLowerCase(m) = n
                THEN h[CHOOSE m \in moved : toLowerCase(m) = n]
                ELSE h[n]]
      acc == IF Falsy(low["accept"]) THEN [low EXCEPT !["accept"] = ACCEPT]
             ELSE low
  IN IF Falsy(acc["content-type"])
     THEN [acc EXCEPT !["content-type"] = "application/json"]
     ELSE acc

\* 'Layer session-token="' + sessionToken + '"'
SessionHeader(token) ==
  IF token = "t1" THEN "Layer session-token=\"t1\""
  ELSE "Layer session-token=\"\""

\* _xhrFixAuth: the test reads headers.Authorization, the assignment
\* writes headers.authorization
_xhrFixAuth(c, h) ==
  IF c.sessionToken # "" /\ Falsy(h["Authorization"])
  THEN [h EXCEPT !["authorization"] = SessionHeader(c.sessionToken)]
  ELSE h

\* xhr(options, callback): the headers of the request it hands on
Xhr(h) ==
  /\ ~isDestroyed
  /\ ~options.called
  /\ options' = [called |-> TRUE, given |-> h, fixed |-> _xhrFixHeaders(h),
                 headers |-> _xhrFixAuth(Client, _xhrFixHeaders(h))]
  /\ UNCHANGED <<ClientVars, indexedDB, instances, ObjectVars>>

\* ------------------------------------------------------- request routing
\* xhr(): options.sync === false is fired now, anything else is queued
\* in the sync manager
FiresNow_always(sync) == TRUE

FiresNow(sync) == sync = FALSE

\* _nonsyncXhr: the condition under which a response is answered by a
\* retry instead of being passed to _xhrResult
ShouldRetry_offByOne(r, retryCount) ==
  r.status \in GatewayStatus /\ retryCount <= MAX_XHR_RETRIES

ShouldRetry_anyStatus(r, retryCount) == retryCount < MAX_XHR_RETRIES

ShouldRetry(r, retryCount) ==
  r.status \in GatewayStatus /\ retryCount < MAX_XHR_RETRIES

\* number of transient failures after which the sync manager gives up
SyncRetryBound == 1

HasSlot == \E i \in Slots : xhrs[i].st = "free"
FreshSlot ==
  CHOOSE i \in Slots :
    xhrs[i].st = "free" /\ \A j \in Slots : xhrs[j].st = "free" => i <= j
HasRoom == Len(queue) < MaxQueue

IsSync(kind) == IF kind = "op" THEN TRUE ELSE FALSE

\* room for the request a handler may issue
CanIssue(kind) == IF FiresNow(IsSync(kind)) THEN HasSlot ELSE HasRoom

\* the requests in flight and the sync queue after xhr(options): a
\* sync:false request is sent at once (_nonsyncXhr with retryCount 0), any
\* other is handed to syncManager.request
xhr(table, q, kind) ==
  IF kind = "none" THEN [xhrs |-> table, queue |-> q]
  ELSE IF FiresNow(IsSync(kind))
  THEN [xhrs |-> [table EXCEPT ![FreshSlot] =
                    [NewXhr(kind, "inflight") EXCEPT !.attempts = 1]],
        queue |-> q]
  ELSE [xhrs |-> table, queue |-> Append(q, NewXhr(kind, "queued"))]

\* the client fields after a handler that ended in c
FinishClient(c) ==
  /\ isConnected' = c.isConnected
  /\ isAuthenticated' = c.isAuthenticated
  /\ isReady' = c.isReady
  /\ isDestroyed' = c.isDestroyed
  /\ sessionToken' = c.sessionToken
  /\ userId' = c.userId
  /\ isTrustedDevice' = c.isTrustedDevice
  /\ persistenceFeatures' = c.persistenceFeatures
  /\ dbManager' = c.dbManager
  /\ localStorage' = c.localStorage
  /\ challenge' = c.challenge
  /\ fired' = c.fired
  /\ dbm' = c.dbm
  /\ UNCHANGED <<indexedDB, loaded, instances, options>>

Finish(c) == FinishClient(c) /\ UNCHANGED ObjectVars

\* a handler of the API, which may issue one request
FinishWithXhr(c) ==
  LET x == xhr(xhrs, queue, c.out)
  IN /\ Finish(c)
     /\ xhrs' = x.xhrs
     /\ queue' = x.queue
     /\ ended' = NoEnd

\* the record of a step that gave result r to request x
Ended(x, c, r, over) ==
  [kind |-> IF over THEN x.kind ELSE "none",
   attempts |-> IF over THEN x.attempts ELSE 0,
   cb |-> IF c.called THEN r.status ELSE 0]

\* ------------------------------------------------------------- API calls
Connect(u) ==
  /\ ~isDestroyed
  /\ CanIssue("nonces")
  /\ FinishWithXhr(connect(Client, u))
  /\ UNCHANGED authTimers

ConnectWithSession(u, token) ==
  /\ ~isDestroyed
  /\ Len(authTimers) < MaxTimers
  /\ LET c == connectWithSession(Client, u, token)
     IN /\ Finish(c)
        /\ authTimers' = IF c.timer = "" THEN authTimers
                         ELSE Append(authTimers, c.timer)
  /\ ended' = NoEnd
  /\ UNCHANGED <<xhrs, queue>>

\* setTimeout(() => this._authComplete({session_token}), 1)
AuthTimer ==
  /\ authTimers # <<>>
  /\ Finish(_authComplete(Client, Head(authTimers)))
  /\ authTimers' = Tail(authTimers)
  /\ ended' = NoEnd
  /\ UNCHANGED <<xhrs, queue>>

\* the application answers with an identity token: "" or the user id in
\* its prn claim
AnswerAuthenticationChallenge(prn) ==
  /\ ~isDestroyed
  /\ CanIssue("sessions")
  /\ LET c == answerAuthenticationChallenge(Client, prn)
     IN FinishWithXhr(IF c.threw THEN c ELSE [c EXCEPT !.challenge = ""])
  /\ UNCHANGED authTimers

Logout ==
  /\ ~isDestroyed
  /\ isAuthenticated => CanIssue("op")
  /\ FinishWithXhr(logout(Client))
  /\ UNCHANGED authTimers

\* client.userId = u by the application
AssignUserId(u) ==
  /\ ~isDestroyed
  /\ Finish(SetUserId(Client, u))
  /\ ended' = NoEnd
  /\ UNCHANGED <<authTimers, xhrs, queue>>

\* a sync:false request of the application (registerIOSPushToken, ...)
Register ==
  /\ ~isDestroyed
  /\ CanIssue("push")
  /\ FinishWithXhr([Client EXCEPT !.out = "push"])
  /\ UNCHANGED authTimers

\* a request of the application that goes through the sync manager
Submit ==
  /\ ~isDestroyed
  /\ CanIssue("op")
  /\ FinishWithXhr([Client EXCEPT !.out = "op"])
  /\ UNCHANGED authTimers

\* _syncXhr: 'if (target && !depends) depends = [target]', without the
\* default
depends_noDefault(sync) == IF sync.given THEN sync.depends ELSE {}

\* _syncXhr: the depends of the XHRSyncEvent
depends(sync) ==
  IF sync.target # "" /\ ~sync.given THEN {sync.target}
  ELSE IF sync.given THEN sync.depends ELSE {}

\* xhr(options, callback) with options.sync = sync: _syncXhr hands the
\* request to the sync manager
Request(sync) ==
  /\ ~isDestroyed
  /\ Len(queue) < MaxOps
  /\ ~sync.given => sync.depends = {}
  /\ queue' = Append(queue,
                     [NewXhr("op", "queued") EXCEPT
                        !.target = sync.target, !.given = sync.given,
                        !.depends = depends(sync)])
  /\ Finish(Client)
  /\ ended' = NoEnd
  /\ UNCHANGED <<authTimers, xhrs>>

\* destroy(): isDestroyed is set and _destroyComponents runs
Destroy ==
  /\ ~isDestroyed
  /\ Finish([Client EXCEPT !.isDestroyed = TRUE])
  /\ ended' = NoEnd
  /\ UNCHANGED <<authTimers, xhrs, queue>>

\* the stored session passes its expires time
Expire ==
  /\ localStorage # NoSession
  /\ ~localStorage.expired
  /\ Finish([Client EXCEPT !.localStorage.expired = TRUE])
  /\ ended' = NoEnd
  /\ UNCHANGED <<authTimers, xhrs, queue>>

\* ------------------------------------------------- request/response path
\* the xhr callback of _nonsyncXhr
XhrResponse(i, r) ==
  /\ xhrs[i].st = "inflight"
  /\ r \in Results(xhrs[i].kind)
  /\ IF ShouldRetry(r, xhrs[i].retryCount)
     THEN /\ xhrs' = [xhrs EXCEPT ![i].st = "timer", ![i].delay = RETRY_DELAY]
          /\ Finish(Client)
          /\ ended' = NoEnd
     ELSE LET c == _xhrResult(Client, r, xhrs[i].kind)
          IN /\ xhrs' = [xhrs EXCEPT ![i] = FreeSlot]
             /\ Finish(c)
             /\ ended' = Ended(xhrs[i], c, r, TRUE)
  /\ UNCHANGED <<authTimers, queue>>

\* setTimeout(() => this._nonsyncXhr(options, callback, retryCount + 1), 1000)
RetryTimer(i) ==
  /\ xhrs[i].st = "timer"
  /\ xhrs' = [xhrs EXCEPT ![i].st = "inflight", ![i].delay = 0,
                          ![i].retryCount = @ + 1, ![i].attempts = @ + 1]
  /\ Finish(Client)
  /\ ended' = NoEnd
  /\ UNCHANGED <<authTimers, queue>>

\* --------------------------------------------------------- sync manager
\* request b waits for request a, which was queued before it
Linked(a, b) == a.target # "" /\ a.target \in b.depends

\* a request that must not be sent yet: one it depends on is still in the
\* queue, or was aborted
Blocked(q, k) ==
  \/ q[k].st = "blocked"
  \/ \E j \in 1..(k - 1) : Linked(q[j], q[k])

Ready(q, k) == q[k].st = "queued" /\ ~Blocked(q, k)

\* dequeueNext: the earliest queued request with no unresolved dependency
HasNext(q) == \E k \in DOMAIN q : Ready(q, k)
dequeueNext(q) ==
  CHOOSE k \in DOMAIN q : Ready(q, k) /\ \A j \in 1..(k - 1) : ~Ready(q, j)

Remove(q, k) == SubSeq(q, 1, k - 1) \o SubSeq(q, k + 1, Len(q))

\* the requests that wait for request k stay blocked when it is aborted
BlockDependents(q, k) ==
  [j \in DOMAIN q |->
     IF j > k /\ q[j].st = "queued" /\ Linked(q[k], q[j])
     THEN [q[j] EXCEPT !.st = "blocked"] ELSE q[j]]

\* the sync manager sends the next request once the client is
\* authenticated
SyncDispatch ==
  /\ ~isDestroyed
  /\ isAuthenticated
  /\ HasNext(queue)
  /\ LET k == dequeueNext(queue)
     IN /\ queue[k].attempts < MaxDispatch
        /\ queue' = [queue EXCEPT ![k].st = "inflight",
                                  ![k].attempts = @ + 1]
  /\ Finish(Client)
  /\ ended' = NoEnd
  /\ UNCHANGED <<authTimers, xhrs>>

\* the response to a dispatched request.  A success or a permanent failure
\* ends the request and reaches the callback given by _syncXhr (which runs
\* _xhrResult); a 401 is forwarded to that callback and the request stays
\* queued; a gateway failure is retried until the request has been sent
\* more than SyncRetryBound times.
SyncResponse(r) ==
  \E k \in DOMAIN queue :
    /\ queue[k].st = "inflight"
    /\ r \in Results("op")
    /\ LET c == _xhrResult(Client, r, "op")
       IN IF isDestroyed
          THEN /\ queue' = [queue EXCEPT ![k].st = "queued"]
               /\ Finish(Client)
               /\ ended' = NoEnd
          ELSE IF r.status = 401
          THEN /\ queue' = [queue EXCEPT ![k].st = "queued"]
               /\ Finish(c)
               /\ ended' = Ended(queue[k], c, r, FALSE)
          ELSE IF r.status \in GatewayStatus
                  /\ queue[k].attempts <= SyncRetryBound
          THEN /\ queue' = [queue EXCEPT ![k].st = "queued"]
               /\ Finish(Client)
               /\ ended' = NoEnd
          ELSE /\ queue' = Remove(IF r.success THEN queue
                                  ELSE BlockDependents(queue, k), k)
               /\ Finish(c)
               /\ ended' = Ended(queue[k], c, r, TRUE)
    /\ UNCHANGED <<authTimers, xhrs>>

\* ------------------------------------------------------------ DbManager
\* an object given to writeConversations / writeMessages: its id, its
\* value (the properties that are stored) and its _fromIndexedDB flag
Items == [id : RecIds, v : Vals, _fromIndexedDB : BOOLEAN]

\* the arrays of objects carried by an add event
Batches ==
  {<<a>> : a \in Items}
  \cup {s \in Items \X Items : s[1].id # s[2].id}

\* the database manager and the databases, as the value the methods of
\* DbManager work on; loaded is the state of the caller of the last read
World == [m |-> dbm, db |-> indexedDB, loaded |-> loaded]

RECURSIVE FirstConflict(_, _, _)
\* the index of the first item whose store.add fails on its key, 0 if none
FirstConflict(tbl, data, k) ==
  IF k > Len(data) THEN 0
  ELSE IF tbl[data[k].id] # 0 THEN k
  ELSE FirstConflict([tbl EXCEPT ![data[k].id] = data[k].v], data, k + 1)

RECURSIVE PutFrom(_, _, _)
\* the items from index k on, stored one after the other
PutFrom(tbl, data, k) ==
  IF k > Len(data) THEN tbl
  ELSE PutFrom([tbl EXCEPT ![data[k].id] = data[k].v], data, k + 1)

\* The transaction of _writeObjects: store.add for every item, in one
\* readwrite transaction.  A failed add fires the request's error event;
\* onerror puts the item in a transaction of its own and does not call
\* preventDefault, so the first transaction aborts: the adds it had done
\* are rolled back, and every add still pending fails in turn and is put
\* by its own onerror.
WriteTransaction(tbl, data) ==
  LET k == FirstConflict(tbl, data, 1)
  IN IF k = 0 THEN PutFrom(tbl, data, 1) ELSE PutFrom(tbl, data, k)

\* the callbacks given to onOpen, run on the open database
Run(w, cb) ==
  CASE cb.op = "write" ->
         [w EXCEPT !.db[w.m.name][cb.table] = WriteTransaction(@, cb.data)]
    [] cb.op = "delete" ->
         [w EXCEPT !.db[w.m.name][cb.table][cb.id] = 0]
    [] cb.op = "read" ->
         [w EXCEPT !.loaded =
            IF w.db[w.m.name][cb.table][cb.id] # 0 THEN "found" ELSE "empty"]

\* onOpen with the callback put before those that wait
onOpen_prepends(w, cb) ==
  IF w.m.isDisabled
  THEN IF cb.op = "read" THEN [w EXCEPT !.loaded = "dropped"] ELSE w
  ELSE IF w.m.isOpen THEN Run(w, cb)
  ELSE LET w1 == [w EXCEPT !.m.waiting = <<cb>> \o @]
       IN IF cb.op = "read" THEN [w1 EXCEPT !.loaded = "waiting"] ELSE w1

\* onOpen(callback): nothing when disabled (the callback is not kept),
\* the callback at once when open, else once('open', callback)
onOpen(w, cb) ==
  IF w.m.isDisabled
  THEN IF cb.op = "read" THEN [w EXCEPT !.loaded = "dropped"] ELSE w
  ELSE IF w.m.isOpen THEN Run(w, cb)
  ELSE LET w1 == [w EXCEPT !.m.waiting = Append(@, cb)]
       IN IF cb.op = "read" THEN [w1 EXCEPT !.loaded = "waiting"] ELSE w1

_writeObjects(w, tableName, data) ==
  onOpen(w, [op |-> "write", table |-> tableName, data |-> data, id |-> 0])

\* writeConversations / writeMessages: the objects that came from the
\* database are left out, the others are mapped to records
Records(objects) ==
  LET kept == SelectSeq(objects, LAMBDA o : ~o._fromIndexedDB)
  IN [k \in DOMAIN kept |-> [id |-> kept[k].id, v |-> kept[k].v]]

writeObjects(w, tableName, objects) ==
  _writeObjects(w, tableName, Records(objects))

deleteObjects(w, tableName, item) ==
  onOpen(w, [op |-> "delete", table |-> tableName, data |-> <<>>,
             id |-> item.id])

getObjects(w, tableName, id) ==
  onOpen(w, [op |-> "read", table |-> tableName, data |-> <<>>, id |-> id])

\* writeSyncEvent() has an empty body, and the listener of 'sync:add'
\* that would call it is commented out
writeSyncEvent(w, request) == w

RECURSIVE RunAll(_, _)
RunAll(w, cbs) ==
  IF cbs = <<>> THEN w ELSE RunAll(Run(w, Head(cbs)), Tail(cbs))

\* the database and its manager after a method of DbManager that ended in w
FinishDb(w) ==
  /\ dbm' = w.m
  /\ indexedDB' = w.db
  /\ loaded' = w.loaded
  /\ UNCHANGED <<isConnected, isAuthenticated, isReady, isDestroyed,
                 sessionToken, userId, isTrustedDevice, persistenceFeatures,
                 dbManager, localStorage, challenge, authTimers, xhrs,
                 queue, instances, options, ObjectVars>>
  /\ fired' = <<>>
  /\ ended' = NoEnd

\* room for the callback that onOpen may keep
CanWait == dbm.isOpen \/ dbm.isDisabled \/ Len(dbm.waiting) < MaxWaiting

\* request.onsuccess of _open: the database is open, 'open' is triggered
OpenSuccess ==
  /\ dbManager /\ dbm.opening
  /\ FinishDb(RunAll([World EXCEPT !.m.isOpen = TRUE, !.m.opening = FALSE,
                                   !.m.waiting = <<>>],
                     dbm.waiting))

\* 'conversations:add' / 'messages:add' with the array of new objects
Add(tableName, objects) ==
  /\ dbManager /\ CanWait
  /\ FinishDb(writeObjects(World, tableName, objects))

\* 'conversations:change' / 'messages:change' with the changed object
Change(tableName, object) ==
  /\ dbManager /\ CanWait
  /\ FinishDb(writeObjects(World, tableName, <<object>>))

\* 'conversations:delete' / 'messages:delete'
Delete(tableName, object) ==
  /\ dbManager /\ CanWait
  /\ FinishDb(deleteObjects(World, tableName, object))

\* UserIdentity.load(id, client): client.dbManager.getObjects('identities',
\* [id], callback); a client without a dbManager raises a TypeError
Load(id) ==
  /\ loaded # "waiting"
  /\ CanWait
  /\ FinishDb(IF dbManager THEN getObjects(World, "identities", id)
              ELSE World)

\* the application sets dbManager.isDisabled
Disable ==
  /\ dbManager /\ ~dbm.isDisabled
  /\ FinishDb([World EXCEPT !.m.isDisabled = TRUE])

\* the page is loaded again: a new client is constructed; localStorage and
\* the databases are what the last one left
Restart ==
  /\ isConnected' = FALSE
  /\ isAuthenticated' = FALSE
  /\ isReady' = FALSE
  /\ isDestroyed' = FALSE
  /\ sessionToken' = ""
  /\ userId' = ""
  /\ persistenceFeatures' = NullFeatures
  /\ dbManager' = FALSE
  /\ challenge' = ""
  /\ authTimers' = <<>>
  /\ xhrs' = [i \in Slots |-> FreeSlot]
  /\ queue' = <<>>
  /\ fired' = <<>>
  /\ ended' = NoEnd
  /\ dbm' = NoDbManager
  /\ loaded' = "none"
  /\ UNCHANGED <<isTrustedDevice, localStorage, indexedDB, instances,
                 options, ObjectVars>>

\* ----------------------------------------- clients that share a store
\* the database the clients share: that of one user
Shared == "u1"

\* claim(op) that reports a record that is gone as found
claim_alwaysExisted(tbl, id) ==
  [existed |-> TRUE, table |-> [tbl EXCEPT ![id] = 0]]

\* claim(op): read and delete in one transaction; existed tells whether the
\* record was still there
claim(tbl, id) ==
  [existed |-> tbl[id] # 0, table |-> [tbl EXCEPT ![id] = 0]]

ClaimVars == <<ClientVars, options, ObjectVars>>

\* append(op): the operation is written to the operation-queue table
AppendOp(id, v) ==
  /\ indexedDB[Shared]["sync-queue"][id] = 0
  /\ \A i \in Instances : instances[i][id] = "none"
  /\ indexedDB' = [indexedDB EXCEPT ![Shared]["sync-queue"][id] = v]
  /\ UNCHANGED <<instances, ClaimVars>>

\* loadPending at startup: the client takes the record into its queue
Recover(i, id) ==
  /\ indexedDB[Shared]["sync-queue"][id] # 0
  /\ instances[i][id] = "none"
  /\ instances' = [instances EXCEPT ![i][id] = "recovered"]
  /\ UNCHANGED <<indexedDB, ClaimVars>>

\* before it dispatches a recovered record the client claims it; a record
\* that is gone is discarded
Claim(i, id) ==
  /\ instances[i][id] = "recovered"
  /\ LET res == claim(indexedDB[Shared]["sync-queue"], id)
     IN /\ indexedDB' = [indexedDB EXCEPT ![Shared]["sync-queue"] = res.table]
        /\ instances' = [instances EXCEPT
                           ![i][id] = IF res.existed THEN "won" ELSE "lost"]
  /\ UNCHANGED ClaimVars

\* the client dispatches the request it owns
DispatchClaimed(i, id) ==
  /\ instances[i][id] = "won"
  /\ instances' = [instances EXCEPT ![i][id] = "sent"]
  /\ UNCHANGED <<indexedDB, ClaimVars>>

\* --------------------------------------------------------- announcements
\* The methods are functions from the announcement to the announcement and
\* the request they issue (out).
\* Message.send, which Announcement overrides: the message goes to SAVING
\* and a request is submitted
send_ofMessage(a) ==
  [a |-> [a EXCEPT !.syncState = "SAVING", !.threw = ""], out |-> "op"]

\* Announcement.send() {}
send(a) == [a |-> [a EXCEPT !.threw = ""], out |-> "none"]

\* Announcement.delete: throws on a destroyed announcement, else issues the
\* DELETE request and destroys the announcement
delete(a) ==
  IF a.isDestroyed
  THEN [a |-> [a EXCEPT !.threw = "isDestroyed"], out |-> "none"]
  ELSE [a |-> [a EXCEPT !.isDestroyed = TRUE, !.threw = ""], out |-> "op"]

\* Announcement._createFromServer
_createFromServer ==
  [created |-> TRUE, syncState |-> "SYNCED", isDestroyed |-> FALSE,
   last |-> "create", threw |-> "", loads |-> 0]

\* a method of the announcement has run and left res
FinishAnnouncement(res, name) ==
  LET x == xhr(xhrs, queue, res.out)
  IN /\ res.out # "none" => CanIssue(res.out)
     /\ announcement' = [res.a EXCEPT !.last = name]
     /\ xhrs' = x.xhrs
     /\ queue' = x.queue
     /\ UNCHANGED <<isConnected, isAuthenticated, isReady, isDestroyed,
                    sessionToken, userId, isTrustedDevice,
                    persistenceFeatures, dbManager, localStorage, challenge,
                    authTimers, fired, ended, dbm, loaded, indexedDB,
                    instances, options, conversation, cursor>>

AnnouncementCreate ==
  /\ ~announcement.created
  /\ FinishAnnouncement([a |-> _createFromServer, out |-> "none"], "create")

AnnouncementSend ==
  /\ announcement.created
  /\ FinishAnnouncement(send(announcement), "send")

AnnouncementDelete ==
  /\ announcement.created
  /\ FinishAnnouncement(delete(announcement), "delete")

\* --------------------------------------------------------- conversations
\* replaceParticipants / setMetadataProperties: the property is changed on
\* the client at once and the change is sent to the server
mutate(c, p, v) ==
  [c EXCEPT !.local[p] = v, !.st = "saving", !.property = p,
            !.event = [property |-> p, oldValue |-> c.local[p],
                       newValue |-> v]]

\* the server has taken the change
accepted(c) ==
  [c EXCEPT !.server[c.property] = c.local[c.property], !.st = "idle",
            !.event = NoChange]

\* the server has rejected the change: Conversation.load is started
rejected(c) == [c EXCEPT !.st = "loading", !.event = NoChange]

\* the reload that keeps the values of the client
populateFromServer_keepsLocal(c) ==
  [c EXCEPT !.st = "idle", !.event = NoChange]

\* the response of Conversation.load: the properties take the values of
\* the server and the change of the mutated property is announced
populateFromServer(c) ==
  [c EXCEPT !.local = c.server, !.st = "idle",
            !.event = IF c.local[c.property] = c.server[c.property]
                      THEN NoChange
                      ELSE [property |-> c.property,
                            oldValue |-> c.local[c.property],
                            newValue |-> c.server[c.property]]]

FinishConversation(c) ==
  /\ conversation' = c
  /\ UNCHANGED <<ClientVars, indexedDB, instances, options, announcement,
                 cursor>>

Mutate(p, v) ==
  /\ conversation.st = "idle"
  /\ v # conversation.local[p]
  /\ FinishConversation(mutate(conversation, p, v))

MutationResponse(success) ==
  /\ conversation.st = "saving"
  /\ FinishConversation(IF success THEN accepted(conversation)
                        ELSE rejected(conversation))

LoadResponse ==
  /\ conversation.st = "loading"
  /\ FinishConversation(populateFromServer(conversation))

\* ------------------------------------------------------- specification
Init ==
  /\ isConnected = FALSE
  /\ isAuthenticated = FALSE
  /\ isReady = FALSE
  /\ isDestroyed = FALSE
  /\ sessionToken = ""
  /\ userId = ""
  /\ isTrustedDevice \in BOOLEAN
  /\ persistenceFeatures = NullFeatures
  /\ dbManager = FALSE
  /\ localStorage = NoSession
  /\ challenge = ""
  /\ authTimers = <<>>
  /\ xhrs = [i \in Slots |-> FreeSlot]
  /\ queue = <<>>
  /\ fired = <<>>
  /\ ended = NoEnd
  /\ dbm = NoDbManager
  /\ indexedDB = [n \in DbNames |-> EmptyDb]
  /\ loaded = "none"
  /\ instances = NoInstances
  /\ options = NoOptions
  /\ announcement = NoAnnouncement
  /\ conversation = NewConversation
  /\ cursor = NoCursor

Next ==
  \/ \E u \in Users \cup {""} : Connect(u)
  \/ \E u \in Users \cup {""}, t \in Tokens \cup {""} : ConnectWithSession(u, t)
  \/ AuthTimer
  \/ \E p \in Users \cup {""} : AnswerAuthenticationChallenge(p)
  \/ Logout
  \/ \E u \in Users : AssignUserId(u)
  \/ Register
  \/ Submit
  \/ Destroy
  \/ Expire
  \/ \E i \in Slots, r \in AllResults : XhrResponse(i, r)
  \/ \E i \in Slots : RetryTimer(i)
  \/ SyncDispatch
  \/ \E r \in AllResults : SyncResponse(r)

Spec == Init /\ [][Next]_vars

\* ------------------------------------- the client and its database
\* a client as its constructor leaves it
NewClient(trusted) ==
  [isConnected |-> FALSE, isAuthenticated |-> FALSE, isReady |-> FALSE,
   isDestroyed |-> FALSE, sessionToken |-> "", userId |-> "",
   isTrustedDevice |-> trusted, persistenceFeatures |-> NullFeatures,
   dbManager |-> FALSE, localStorage |-> NoSession, challenge |-> "",
   dbm |-> NoDbManager, fired |-> <<>>, threw |-> FALSE, called |-> FALSE,
   out |-> "none", timer |-> ""]

\* the client once connectWithSession and its timer have run: it is
\* ready, and _clientReady has constructed its DbManager
ReadyClient(trusted, u, token) ==
  _authComplete(connectWithSession(NewClient(trusted), u, token), token)

DbInit ==
  \E trusted \in BOOLEAN :
    LET c == ReadyClient(trusted, "u1", "t1")
    IN /\ isConnected = c.isConnected
       /\ isAuthenticated = c.isAuthenticated
       /\ isReady = c.isReady
       /\ isDestroyed = c.isDestroyed
       /\ sessionToken = c.sessionToken
       /\ userId = c.userId
       /\ isTrustedDevice = c.isTrustedDevice
       /\ persistenceFeatures = c.persistenceFeatures
       /\ dbManager = c.dbManager
       /\ localStorage = c.localStorage
       /\ challenge = c.challenge
       /\ authTimers = <<>>
       /\ xhrs = [i \in Slots |-> FreeSlot]
       /\ queue = <<>>
       /\ fired = c.fired
       /\ ended = NoEnd
       /\ dbm = c.dbm
       /\ indexedDB = [n \in DbNames |-> EmptyDb]
       /\ loaded = "none"
       /\ instances = NoInstances
       /\ options = NoOptions
       /\ announcement = NoAnnouncement
       /\ conversation = NewConversation
       /\ cursor = NoCursor

\* the events of the objects the client holds, the reads of
\* UserIdentity.load, and the calls of the application that touch the
\* stored data
DbNext ==
  \/ OpenSuccess
  \/ \E tn \in {"conversations", "messages"}, b \in Batches : Add(tn, b)
  \/ \E tn \in {"conversations", "messages"}, o \in Items : Change(tn, o)
  \/ \E tn \in {"conversations", "messages"}, o \in Items : Delete(tn, o)
  \/ \E id \in RecIds : Load(id)
  \/ Disable
  \/ Submit
  \/ Logout
  \/ Expire
  \/ \E u \in Users : Connect(u)
  \/ Restart

DbSpec == DbInit /\ [][DbNext]_vars

\* ------------------------------------------- the order of the requests
\* a ready client whose application submits requests with targets and
\* depends
QueueNext ==
  \/ \E sync \in SyncOptions : Request(sync)
  \/ SyncDispatch
  \/ \E r \in AllResults : SyncResponse(r)

\* a ready client that holds an announcement
AnnouncementNext ==
  \/ AnnouncementCreate
  \/ AnnouncementSend
  \/ AnnouncementDelete
  \/ Submit
  \/ SyncDispatch
  \/ \E r \in AllResults : SyncResponse(r)

AnnouncementSpec == DbInit /\ [][AnnouncementNext]_vars

\* a ready client that holds a conversation
ConversationNext ==
  \/ \E p \in Properties, v \in PropertyValues : Mutate(p, v)
  \/ \E success \in BOOLEAN : MutationResponse(success)
  \/ LoadResponse

ConversationSpec == DbInit /\ [][ConversationNext]_vars

ClaimNext ==
  \/ \E id \in RecIds, v \in Vals : AppendOp(id, v)
  \/ \E i \in Instances, id \in RecIds : Recover(i, id)
  \/ \E i \in Instances, id \in RecIds : Claim(i, id)
  \/ \E i \in Instances, id \in RecIds : DispatchClaimed(i, id)

ClaimSpec == DbInit /\ [][ClaimNext]_vars

QueueInit == DbInit /\ isTrustedDevice

QueueSpec == QueueInit /\ [][QueueNext]_vars

\* a client, new or ready, whose application calls xhr()
HeaderInit == Init \/ QueueInit

\* the one call of xhr() that is followed
HeaderNext == ~options.called /\ \E h \in Headers : Xhr(h)

HeaderSpec == HeaderInit /\ [][HeaderNext]_vars

\* -------------------------------------------- a cooperating environment
\* The application connects once, answers every challenge with an identity
\* token of its user, and the server accepts: /nonces and /sessions
\* requests succeed.  Requests of the sync manager get any response.
FirstConnect ==
  /\ userId = "" /\ ~isConnected /\ authTimers = <<>>
  /\ \/ \E u \in Users : Connect(u)
     \/ \E u \in Users, t \in Tokens : ConnectWithSession(u, t)

NonceGranted ==
  \E i \in Slots, n \in Nonces :
    xhrs[i].kind = "nonces" /\ XhrResponse(i, OkResult(n, ""))

AnswerChallenge ==
  /\ challenge # ""
  /\ AnswerAuthenticationChallenge(userId)

SessionGranted ==
  \E i \in Slots, t \in Tokens :
    xhrs[i].kind = "sessions" /\ XhrResponse(i, OkResult("", t))

SyncAnswered == \E r \in AllResults : SyncResponse(r)

LiveNext ==
  \/ FirstConnect
  \/ NonceGranted
  \/ AnswerChallenge
  \/ SessionGranted
  \/ AuthTimer
  \/ Submit
  \/ SyncDispatch
  \/ SyncAnswered

LiveSpec ==
  /\ Init
  /\ [][LiveNext]_vars
  /\ WF_vars(NonceGranted)
  /\ WF_vars(AnswerChallenge)
  /\ WF_vars(SessionGranted)
  /\ WF_vars(AuthTimer)
  /\ WF_vars(SyncDispatch)
  /\ WF_vars(SyncAnswered)

TypeOK ==
  /\ isConnected \in BOOLEAN /\ isAuthenticated \in BOOLEAN
  /\ isReady \in BOOLEAN /\ isDestroyed \in BOOLEAN
  /\ sessionToken \in Tokens \cup {""}
  /\ userId \in Users \cup {""}
  /\ challenge \in Nonces \cup {""}

\* ---------------------------------------------------------------- claims
\* C1: in every reachable state of a client, isAuthenticated = TRUE implies
\* isConnected = TRUE.
C1_AuthenticatedImpliesConnected == isAuthenticated => isConnected

\* C2: in every reachable state of a client, sessionToken is the empty
\* string whenever isAuthenticated is FALSE.
C2_TokenOnlyWhenAuthenticated == ~isAuthenticated => sessionToken = ""

\* C3: a failed response with status 401 that carries a nonce and is handled
\* while the session is Authenticated sets isAuthenticated to FALSE, fires
\* 'deauthenticated' and then fires 'challenge' with the nonce of that
\* response.
C3_Reauthenticate401 ==
  [][\A r \in AllResults :
       (/\ r.status = 401 /\ r.nonce # ""
        /\ isAuthenticated /\ ~isDestroyed
        /\ (SyncResponse(r) \/ \E i \in Slots : XhrResponse(i, r)))
       => (/\ ~isAuthenticated'
           /\ Len(fired') >= 2
           /\ fired'[1] = Ev("deauthenticated")
           /\ fired'[2] = Challenge(r.nonce)
           /\ challenge' = r.nonce)]_vars

C3_Witness ==
  /\ ~isDestroyed /\ ~isAuthenticated /\ isConnected
  /\ Len(fired) >= 2
  /\ fired[1] = Ev("deauthenticated")
  /\ fired[2] = Challenge("n1")

\* C4: a queued operation whose dispatch returns 401 while the session is
\* Authenticated is not reported to its caller as failed (its callback is
\* not invoked with the 401) and stays queued.
C4_NotReportedOn401 ==
  [][\A r \in AllResults :
       (r.status = 401 /\ isAuthenticated /\ ~isDestroyed /\ SyncResponse(r))
       => (/\ ended'.cb = 0
           /\ Len(queue') = Len(queue)
           /\ queue'[1].st = "queued")]_vars

\* C5: whenever a 401 has moved the session to Deauthenticated (connected,
\* not authenticated, the stale token still held), and the application
\* answers every challenge and the server accepts, the session is
\* eventually Authenticated again, and no queued operation is discarded
\* while it is Deauthenticated.
C5_Reauthentication ==
  /\ (isConnected /\ ~isAuthenticated /\ sessionToken # "") ~> isAuthenticated
  /\ [][(isConnected /\ ~isAuthenticated /\ sessionToken # "")
          => Len(queue') >= Len(queue)]_vars

C7_RetryBound ==
  /\ [](\A i \in Slots :
          /\ xhrs[i].attempts <= MAX_XHR_RETRIES + 1
          /\ xhrs[i].st # "free" => xhrs[i].attempts = xhrs[i].retryCount + 1
          /\ xhrs[i].st = "timer" => xhrs[i].delay = RETRY_DELAY)
  /\ [][\A i \in Slots :
          /\ (xhrs[i].st # "free" /\ xhrs'[i].attempts > xhrs[i].attempts)
               => (/\ xhrs[i].st = "timer"
                   /\ xhrs[i].delay = RETRY_DELAY
                   /\ xhrs'[i].attempts = xhrs[i].attempts + 1)
          /\ \A r \in AllResults :
               (r.status \in GatewayStatus /\ ~isDestroyed /\ XhrResponse(i, r))
               => IF xhrs[i].retryCount < MAX_XHR_RETRIES
                  THEN xhrs'[i].st = "timer" /\ ended'.cb = 0
                  ELSE (/\ xhrs'[i].st = "free"
                        /\ ended'.kind = xhrs[i].kind
                        /\ ended'.cb = r.status)]_vars

C7_Witness ==
  /\ ended.kind = "push"
  /\ ended.attempts = MAX_XHR_RETRIES + 1
  /\ ended.cb \in GatewayStatus

\* C8: a response to a sync:false request whose status is not 502, 503 or
\* 504 is never retried: the request ends with that attempt and the result
\* is given to the caller's callback, whatever the retry count.
C8_NonGatewayDelivered ==
  [][\A i \in Slots, r \in AllResults :
       (XhrResponse(i, r) /\ r.status \notin GatewayStatus /\ ~isDestroyed)
       => (/\ xhrs'[i].st = "free"
           /\ ended'.kind = xhrs[i].kind
           /\ ended'.attempts = xhrs[i].attempts
           /\ ended'.cb = r.status)]_vars

\* C9: when a sync:false request receives k <= MAX_XHR_RETRIES gateway
\* failures and then a successful response, no callback is invoked for the
\* failed attempts and the callback is invoked once, with the success, by
\* the step that ends the request.
C9_SuccessAfterRetries ==
  [][\A i \in Slots :
       /\ (xhrs[i].st # "free" /\ xhrs'[i].st # "free" /\ xhrs'[i] # xhrs[i])
            => ended'.cb = 0
       /\ \A r \in AllResults :
            (r.success /\ ~isDestroyed /\ XhrResponse(i, r))
            => (/\ xhrs'[i].st = "free"
                /\ ended'.kind = xhrs[i].kind
                /\ ended'.attempts = xhrs[i].retryCount + 1
                /\ ended'.cb = 200)]_vars

C9_Witness ==
  /\ ended.kind = "push"
  /\ ended.attempts > 1
  /\ ended.cb = 200

\* C10: no submitted request is dropped: a request that ends has had its
\* callback invoked with the result (a request that does not end stays
\* queued).
C10_NeverDropped == ended.kind \in {"push", "op"} => ended.cb # 0

\* the number of records of a table
Count(tbl) == Cardinality({id \in RecIds : tbl[id] # 0})

NoData == [n \in DbNames |-> EmptyDb]

\* the step issued a POST /nonces request
NonceRequested ==
  \E i \in Slots : xhrs[i].st = "free" /\ xhrs'[i].kind = "nonces"

\* the step took the cached-session shortcut of connect()
Shortcut == Ev("authenticated") \in {fired'[k] : k \in DOMAIN fired'}

\* C13: every operation submitted to the sync queue is written to the
\* durable sync-queue table (so that a restart can rebuild the queue from
\* it): on a trusted device whose database is open, the table holds a
\* record for every operation in the queue.
C13_QueuePersisted ==
  (isTrustedDevice /\ dbManager /\ dbm.isOpen /\ ~dbm.isDisabled)
    => Count(indexedDB[dbm.name]["sync-queue"]) >= Len(queue)

\* C14: while the DbManager is disabled, a write or delete call changes
\* nothing, and a read still completes: its callback is delivered, with no
\* records.
C14_DisabledIsNoOp ==
  [][dbm.isDisabled =>
       /\ ((\E tn \in TableNames, b \in Batches : Add(tn, b))
           \/ (\E tn \in TableNames, o \in Items :
                 Change(tn, o) \/ Delete(tn, o)))
            => indexedDB' = indexedDB
       /\ \A id \in RecIds : Load(id) => loaded' = "empty"]_vars

\* C15: after a batch has been written to an open database, the table
\* holds, for every id of the batch, the value written for that id.
C15_InsertThenUpsert ==
  [][\A tn \in {"conversations", "messages"}, b \in Batches :
       (dbm.isOpen /\ ~dbm.isDisabled /\ Add(tn, b))
       => \A k \in DOMAIN b :
            ~b[k]._fromIndexedDB
              => indexedDB'[dbm.name][tn][b[k].id] = b[k].v]_vars

\* C16: connect(userId) takes the cached-session shortcut only if the
\* session token it uses is that of an unexpired stored session of the
\* same user; in every other case it issues the nonce request.
C16_ShortcutOnlyIfValid ==
  [][\A u \in Users \cup {""} :
       Connect(u) =>
         IF Shortcut
         THEN /\ localStorage # NoSession
              /\ ~localStorage.expired
              /\ localStorage.userId = u
              /\ sessionToken' = localStorage.sessionToken
         ELSE NonceRequested]_vars

\* C17: when connect(userId) finds a stored session that is expired or
\* that belongs to another user, it issues the nonce request (no shortcut)
\* and clears the stored session and the tables of the database.
C17_StaleSessionCleared ==
  [][\A u \in Users :
       (/\ isTrustedDevice
        /\ localStorage # NoSession
        /\ (localStorage.expired \/ localStorage.userId # u)
        /\ Connect(u))
       => (/\ ~Shortcut
           /\ NonceRequested
           /\ localStorage' = NoSession
           /\ indexedDB' = NoData)]_vars

\* C18: on a client with isTrustedDevice = FALSE no session is ever
\* written to localStorage.
C18_UntrustedNoLocalStorage == ~isTrustedDevice => localStorage = NoSession

\* C19: on a client with isTrustedDevice = FALSE no record is ever written
\* to indexedDB.
C19_UntrustedNoIndexedDB == ~isTrustedDevice => indexedDB = NoData

\* C20: after logout() sessionToken is empty, isConnected, isAuthenticated
\* and isReady are FALSE, 'deauthenticated' has been fired, the stored
\* session is gone, all tables are cleared, and the DELETE /sessions
\* request was issued only if the client was authenticated.
C20_LogoutClears ==
  [][Logout =>
       /\ sessionToken' = "" /\ ~isConnected' /\ ~isAuthenticated'
       /\ ~isReady'
       /\ Ev("deauthenticated") \in {fired'[k] : k \in DOMAIN fired'}
       /\ localStorage' = NoSession
       /\ indexedDB' = NoData
       /\ (Len(queue') > Len(queue)) <=> isAuthenticated]_vars

\* request b is to wait for request a: a's target is in the depends given
\* for b, or b was given no depends and has the same target
DependsOn(a, b) ==
  /\ a.target # ""
  /\ IF b.given THEN a.target \in b.depends ELSE a.target = b.target

\* the same request, whatever its state
Same(x, y) == [x EXCEPT !.st = ""] = [y EXCEPT !.st = ""]

\* the step took request k out of the queue
Removed(k) ==
  /\ Len(queue') = Len(queue) - 1
  /\ \A j \in 1..(k - 1) : Same(queue'[j], queue[j])
  /\ \A j \in k..Len(queue') : Same(queue'[j], queue[j + 1])

\* C11: a request is never sent while a request queued before it on which
\* it depends (by its depends, or by the default dependency on its target)
\* is still unresolved, and the requests that depend on a request that
\* ended in a failure are not sent after it; requests without such a
\* link are sent in any order.
C11_DependencyOrder ==
  [][\A k \in DOMAIN queue :
       /\ (/\ Len(queue') = Len(queue)
           /\ queue[k].st # "inflight" /\ queue'[k].st = "inflight")
          => (/\ queue[k].st = "queued"
              /\ \A j \in 1..(k - 1) : ~DependsOn(queue[j], queue[k]))
       /\ \A r \in AllResults :
            (/\ ~r.success /\ ~isDestroyed /\ queue[k].st = "inflight"
             /\ Removed(k)
             /\ SyncResponse(r))
            => \A j \in k..Len(queue') :
                 DependsOn(queue[k], queue'[j]) => queue'[j].st = "blocked"]_vars

\* a request that was sent and is queued again, and behind it a request
\* with the default dependency on the same target, which waits
C11_Witness ==
  /\ isAuthenticated
  /\ Len(queue) = 2
  /\ queue[1].st = "queued" /\ queue[1].attempts = 1
  /\ queue[2].st = "queued" /\ queue[2].attempts = 0
  /\ ~queue[2].given /\ queue[2].target = queue[1].target
  /\ queue[2].target # ""

\* the clients that own record id, and those whose claim has returned
Owners(id) == {i \in Instances : instances[i][id] \in {"won", "sent"}}
Claimed(id) == {i \in Instances : instances[i][id] \in {"won", "sent", "lost"}}

C21_DestroyStopsTimers ==
  [][isDestroyed =>
       \A i \in Slots : xhrs'[i].attempts <= xhrs[i].attempts]_vars

\* C22: when the POST /nonces request of connect() fails on a session that
\* is Disconnected, 'connected-error' is fired, no challenge is fired,
\* isConnected and isAuthenticated stay FALSE, and the failure changes
\* nothing that a later connect() reads, so connect() is as available after
\* the failure as it was before.
C22_ConnectFailureRecoverable ==
  [][\A i \in Slots, r \in AllResults :
       (/\ xhrs[i].kind = "nonces" /\ ~r.success
        /\ ~ShouldRetry(r, xhrs[i].retryCount)
        /\ ~isConnected /\ ~isAuthenticated /\ ~isDestroyed
        /\ XhrResponse(i, r))
       => (/\ fired' = <<Ev("connected-error")>>
           /\ ~isConnected' /\ ~isAuthenticated'
           /\ challenge' = challenge
           /\ UNCHANGED <<userId, sessionToken, localStorage,
                          isTrustedDevice, persistenceFeatures, dbManager,
                          isDestroyed>>)]_vars

C22_Witness ==
  /\ ended.kind = "nonces" /\ ended.cb \notin {0, 200}
  /\ fired = <<Ev("connected-error")>>
  /\ ~isConnected /\ ~isAuthenticated /\ ~isDestroyed
  /\ userId # ""

\* C23: when the POST /sessions request fails, 'authenticated-error' is
\* fired, the session does not become Authenticated, and every operation
\* that was queued is still queued, unchanged.
C23_AuthFailureKeepsQueue ==
  [][\A i \in Slots, r \in AllResults :
       (/\ xhrs[i].kind = "sessions" /\ ~r.success
        /\ ~ShouldRetry(r, xhrs[i].retryCount)
        /\ ~isAuthenticated /\ ~isDestroyed
        /\ XhrResponse(i, r))
       => (/\ fired' = <<Ev("authenticated-error")>>
           /\ ~isAuthenticated'
           /\ queue' = queue)]_vars

C23_Witness ==
  /\ ended.kind = "sessions" /\ ended.cb \notin {0, 200}
  /\ fired = <<Ev("authenticated-error")>>
  /\ ~isAuthenticated /\ ~isDestroyed
  /\ queue # <<>>

\* C24: connectWithSession(userId, sessionToken) with both arguments
\* non-empty issues no request and fires no event before it returns, and
\* leaves isAuthenticated and isReady as they were; when it returns
\* normally its timer is set, and it is the timer's step that fires
\* 'authenticated' and then 'ready' (for a client that was not ready), and
\* never 'connected'.
C24_SessionConnectIsAsync ==
  [][/\ \A u \in Users, t \in Tokens :
          ConnectWithSession(u, t)
          => (/\ fired' = <<>>
              /\ xhrs' = xhrs /\ queue' = queue
              /\ isAuthenticated' = isAuthenticated
              /\ isReady' = isReady
              /\ authTimers' \in {authTimers, Append(authTimers, t)}
              /\ authTimers' # authTimers => isConnected')
     /\ AuthTimer
         => (/\ fired' = IF isReady THEN <<Ev("authenticated")>>
                         ELSE <<Ev("authenticated"), Ev("ready")>>
             /\ isAuthenticated' /\ isReady'
             /\ xhrs' = xhrs /\ queue' = queue)]_vars

C24_Witness ==
  /\ fired = <<Ev("authenticated"), Ev("ready")>>
  /\ isConnected /\ isAuthenticated /\ isReady
  /\ authTimers = <<>>

\* the spellings of a lower-case header name, the values the caller gave
\* under them, and the value that is left under the lower-case name when
\* the names have been made lower-case
Spellings(n) == {s \in HeaderNames : toLowerCase(s) = n}
LowerNames == {toLowerCase(n) : n \in HeaderNames}
GivenFor(n) == {options.given[s] : s \in Spellings(n)} \ {Absent}
Kept(n) ==
  IF \E s \in Spellings(n) : s # n /\ options.given[s] # Absent
  THEN options.given[CHOOSE s \in Spellings(n) :
                       s # n /\ options.given[s] # Absent]
  ELSE options.given[n]

\* C25: an authorization header that the caller of xhr() supplied, in any
\* letter case, reaches the transport with the caller's value; the header
\* built from sessionToken is attached only when the caller supplied none.
C25_CallerAuthorizationKept ==
  options.called =>
    IF ~Falsy(options.fixed["authorization"])
    THEN options.headers["authorization"] = options.fixed["authorization"]
    ELSE sessionToken # ""
           => options.headers["authorization"] = SessionHeader(sessionToken)

\* C26 as stated: after _xhrFixHeaders every header name is lower-case and
\* carries a value the caller gave for it, accept is the caller's value if
\* one was given and ACCEPT otherwise, content-type is the caller's value
\* if one was given and application/json otherwise.
C26_HeadersNormalized ==
  options.called =>
    /\ \A n \in HeaderNames :
         options.fixed[n] # Absent => n = toLowerCase(n)
    /\ \A n \in LowerNames \ {"accept", "content-type"} :
         IF GivenFor(n) = {} THEN options.fixed[n] = Absent
         ELSE options.fixed[n] \in GivenFor(n)
    /\ options.fixed["accept"] \in
         (IF GivenFor("accept") = {} THEN {ACCEPT} ELSE GivenFor("accept"))
    /\ options.fixed["content-type"] \in
         (IF GivenFor("content-type") = {} THEN {"application/json"}
          ELSE GivenFor("content-type"))

\* C26, amended: after _xhrFixHeaders every header name is lower-case and
\* carries the value the caller gave for it (the one given under the
\* spelling that is not lower-case, when both were given); accept and
\* content-type carry that value if it is a non-empty string, and ACCEPT
\* and application/json otherwise.
C26_HeadersNormalizedNonEmpty ==
  options.called =>
    /\ \A n \in HeaderNames :
         options.fixed[n] # Absent => n = toLowerCase(n)
    /\ \A n \in LowerNames \ {"accept", "content-type"} :
         options.fixed[n] = Kept(n)
    /\ options.fixed["accept"] =
         (IF Falsy(Kept("accept")) THEN ACCEPT ELSE Kept("accept"))
    /\ options.fixed["content-type"] =
         (IF Falsy(Kept("content-type")) THEN "application/json"
          ELSE Kept("content-type"))

\* the caller gave Accept in capitals, an empty content-type and a tag
C26_Witness ==
  /\ options.called
  /\ options.given["Accept"] = "a" /\ options.given["accept"] = Absent
  /\ options.given["content-type"] = ""
  /\ options.given["X-Tag"] = "b"
  /\ options.fixed["accept"] = "a"
  /\ options.fixed["content-type"] = "application/json"
  /\ options.fixed["x-tag"] = "b"

\* C27: assigning userId throws if the client is connected and the new
\* value differs from a userId that is not empty; assigning it when there
\* is no userId yet, or to the value it has, is accepted in every state of
\* the session.
C27_UserIdAssignment ==
  [][\A u \in Users :
       AssignUserId(u)
       => LET c == SetUserId(Client, u)
          IN /\ (isConnected /\ userId \notin {"", u})
                  => (c.threw /\ userId' = userId)
             /\ userId \in {"", u} => (~c.threw /\ userId' = u)]_vars

\* the positions of an event among those the step fired
FiredAt(name) == {k \in DOMAIN fired' : fired'[k].name = name}

\* C28: on a connect() without a cached session the session goes from
\* Disconnected to Connected to Authenticated to Ready: the nonce response
\* sets isConnected and fires 'connected' and then 'challenge';
\* 'authenticated' is fired only with a session token held, 'ready' only
\* after 'authenticated'; the session becomes Connected without being
\* Authenticated, Authenticated only when it is Connected, Ready only when
\* it is Authenticated.
C28_ConnectOrder ==
  [][/\ \A i \in Slots, r \in AllResults :
          (/\ xhrs[i].kind = "nonces" /\ r.success /\ r.nonce # ""
           /\ XhrResponse(i, r))
          => (/\ fired' = <<Ev("connected"), Challenge(r.nonce)>>
              /\ isConnected' /\ ~isAuthenticated')
     /\ FiredAt("challenge") # {} => isConnected'
     /\ FiredAt("authenticated") # {}
          => (sessionToken' # "" /\ isAuthenticated')
     /\ \A k \in FiredAt("ready") :
          \E j \in FiredAt("authenticated") : j < k
     /\ (isConnected' /\ ~isConnected) => ~isAuthenticated'
     /\ (isAuthenticated' /\ ~isAuthenticated) => (isConnected /\ isConnected')
     /\ (isReady' /\ ~isReady) => isAuthenticated']_vars

\* the session token has arrived on the connect() path: the POST /sessions
\* request ended with success and 'authenticated' and 'ready' were fired
C28_Witness ==
  /\ ended.kind = "sessions" /\ ended.cb = 200
  /\ fired = <<Ev("authenticated"), Ev("ready")>>
  /\ isConnected /\ isAuthenticated /\ isReady

\* C29: when the server rejects a mutation of a conversation, the
\* conversation is loaded from the server, and the response of the load
\* gives the mutated property the server's value and fires a
\* conversations:change for that property, with the value the client had
\* set as oldValue and the server's value as newValue.
C29_ReloadOnRejection ==
  [][/\ (conversation.st = "saving" /\ MutationResponse(FALSE))
          => conversation'.st = "loading"
     /\ LoadResponse
          => (/\ conversation'.local = conversation.server
              /\ conversation'.event.property = conversation.property
              /\ conversation'.event.oldValue =
                   conversation.local[conversation.property]
              /\ conversation'.event.newValue =
                   conversation.server[conversation.property])]_vars

\* the reload has replaced a value the client had set
C29_Witness ==
  /\ conversation.st = "idle"
  /\ conversation.event.property = "participants"
  /\ conversation.event.oldValue # conversation.event.newValue
  /\ conversation.local["participants"] = conversation.event.newValue
  /\ conversation.local = conversation.server

\* C30: Announcement.send() does nothing: it leaves the sync state of the
\* announcement as it was, submits no operation and sends no request.
C30_AnnouncementSendIsNoOp ==
  [][AnnouncementSend
       => (/\ announcement'.syncState = announcement.syncState
           /\ announcement'.isDestroyed = announcement.isDestroyed
           /\ queue' = queue /\ xhrs' = xhrs)]_vars

\* send() was called on an announcement that delete() had destroyed, while
\* the DELETE request is in the queue
C30_Witness ==
  /\ announcement.last = "send" /\ announcement.isDestroyed
  /\ announcement.syncState = "SYNCED"
  /\ queue # <<>>

\* the names of the events the step fired
FiredNames == {fired'[k].name : k \in DOMAIN fired'}

\* C34: a 401 handled while the session is not authenticated triggers
\* neither 'deauthenticated' nor 'challenge' and leaves the outstanding
\* challenge as it is: of several 401 responses of one expired session only
\* the first one handled starts a reauthentication.
C34_OneChallengePerExpiry ==
  [][\A r \in AllResults :
       (/\ r.status = 401 /\ ~isAuthenticated /\ ~isDestroyed
        /\ (SyncResponse(r) \/ \E i \in Slots : XhrResponse(i, r)))
       => (/\ "deauthenticated" \notin FiredNames
           /\ "challenge" \notin FiredNames
           /\ challenge' = challenge
           /\ ~isAuthenticated')]_vars

\* a second 401 was given to its caller while the challenge of the first
\* is outstanding
C34_Witness ==
  /\ ended.cb = 401 /\ fired = <<>>
  /\ ~isAuthenticated /\ isConnected /\ ~isDestroyed
  /\ challenge # "" /\ sessionToken # ""

\* C35: in every reachable state isReady = TRUE implies
\* isAuthenticated = TRUE.
C35_ReadyImpliesAuthenticated == isReady => isAuthenticated

\* C36: 'ready' is fired only by a step that takes isReady from FALSE to
\* TRUE, and isReady goes back to FALSE only in a session reset (the
\* session is left disconnected, unauthenticated and without token, and
\* 'deauthenticated' is fired).
C36_ReadyOncePerSession ==
  [][/\ "ready" \in FiredNames => (~isReady /\ isReady')
     /\ (isReady /\ ~isReady')
          => (/\ "deauthenticated" \in FiredNames
              /\ ~isConnected' /\ ~isAuthenticated'
              /\ sessionToken' = "")]_vars

\* a reauthentication after a 401 on a client that is ready: the session
\* token has arrived and 'ready' is not fired again
C36_Witness ==
  /\ ended.kind = "sessions" /\ ended.cb = 200
  /\ fired = <<Ev("authenticated")>>
  /\ isReady /\ isAuthenticated

\* C39: after logout() the session stays unauthenticated until connect or
\* connectWithSession is called: the step that follows a logout gives the
\* client a session token or sets isAuthenticated only if it connects it.
C39_LogoutStaysOut ==
  [][(/\ fired = <<Ev("deauthenticated")>>
      /\ ~isConnected /\ ~isAuthenticated /\ ~isReady /\ sessionToken = "")
       => ((isAuthenticated' \/ sessionToken' # "") => isConnected')]_vars

\* ------------------------------------------------- sync events (C37)
\* sendSocketRequest without 'if (target && !depends) depends = [target]'
sendSocketRequest_noDefault(sync) ==
  [NewXhr("socket", "queued") EXCEPT
     !.target = sync.target, !.given = sync.given,
     !.depends = IF sync.given THEN sync.depends ELSE {}]

\* sendSocketRequest(params, callback) with params.sync = sync: the
\* WebsocketSyncEvent handed to the sync manager
sendSocketRequest(sync) ==
  [NewXhr("socket", "queued") EXCEPT
     !.target = sync.target, !.given = sync.given,
     !.depends = IF sync.target # "" /\ ~sync.given THEN {sync.target}
                 ELSE IF sync.given THEN sync.depends ELSE {}]

SendSocketRequest(sync) ==
  /\ ~isDestroyed
  /\ Len(queue) < MaxOps
  /\ ~sync.given => sync.depends = {}
  /\ queue' = Append(queue, sendSocketRequest(sync))
  /\ Finish(Client)
  /\ ended' = NoEnd
  /\ UNCHANGED <<authTimers, xhrs>>

\* a ready client whose application issues requests through the sync manager
RequestNext ==
  \/ \E sync \in SyncOptions : Request(sync)
  \/ \E sync \in SyncOptions : SendSocketRequest(sync)

RequestSpec == QueueInit /\ [][RequestNext]_vars

\* the depends the claim gives a request
Expected(sync) ==
  IF sync.given THEN sync.depends
  ELSE IF sync.target # "" THEN {sync.target} ELSE {}

\* C37: the sync event that _syncXhr or sendSocketRequest builds has
\* depends = [target] when the request names a target and no depends, the
\* given list when depends is given, and no dependency when neither is given
C37_DefaultDepends ==
  [][\A sync \in SyncOptions :
       (Request(sync) \/ SendSocketRequest(sync))
         => /\ Len(queue') = Len(queue) + 1
            /\ queue'[Len(queue')].depends = Expected(sync)
            /\ queue'[Len(queue')].target = sync.target]_vars

\* a socket request with a target and no depends is queued behind an xhr
\* request with explicit depends
C37_Witness ==
  /\ Len(queue) = 2
  /\ queue[1].kind = "op" /\ queue[1].given /\ queue[1].depends = {}
  /\ queue[1].target = "c1"
  /\ queue[2].kind = "socket" /\ ~queue[2].given
  /\ queue[2].target = "c1" /\ queue[2].depends = {"c1"}

\* ------------------------------------------------ getObjects (C33)
RECURSIVE sort(_)
\* ids.sort(): the ids in ascending order, duplicates kept
sort(s) ==
  IF s = <<>> THEN <<>>
  ELSE LET k == CHOOSE i \in DOMAIN s : \A j \in DOMAIN s : s[i] <= s[j]
           rest == [j \in 1..(Len(s) - 1) |-> IF j < k THEN s[j] ELSE s[j + 1]]
       IN <<s[k]>> \o sort(rest)

\* the record an IndexedDB cursor stops at when it is opened or continued
\* to key k: the first key of the store that is not below k, 0 for none
Seek(table, k) ==
  IF \E x \in table : x >= k
  THEN CHOOSE x \in table : x >= k /\ \A y \in table : y >= k => x <= y
  ELSE 0

RECURSIVE Passed(_, _, _)
\* 'while (key > sortedIds[index]) index++', with the 0-based index of the
\* code; sortedIds[index] is undefined past the end and the test is false
Passed(key, sortedIds, index) ==
  IF index < Len(sortedIds) /\ key > sortedIds[index + 1]
  THEN Passed(key, sortedIds, index + 1)
  ELSE index

\* getObjects(tableName, ids, callback) on the open database: the cursor
\* request is made, its first success event is pending
GetObjects(table, ids) ==
  /\ cursor.st = "none"
  /\ cursor' = [table |-> table, ids |-> ids, sortedIds |-> sort(ids),
                index |-> 0, results |-> <<>>, key |-> Seek(table, 1),
                calls |-> 0, st |-> "open"]
  /\ UNCHANGED <<ClientVars, indexedDB, instances, options, announcement,
                 conversation>>

\* the onsuccess handler of the cursor request.  cursor.continue(k) raises
\* a DataError when k is not above the key the cursor is at.
onsuccess(c) ==
  IF c.key = 0 THEN [c EXCEPT !.calls = @ + 1, !.st = "done"]
  ELSE LET i1 == Passed(c.key, c.sortedIds, c.index)
           hit == i1 < Len(c.sortedIds) /\ c.key = c.sortedIds[i1 + 1]
           i2 == IF hit THEN i1 + 1 ELSE i1
           c2 == [c EXCEPT !.index = i2,
                           !.results = IF hit THEN Append(@, c.key) ELSE @]
       IN IF i2 = Len(c.sortedIds)
          THEN [c2 EXCEPT !.calls = @ + 1, !.st = "done"]
          ELSE IF c.sortedIds[i2 + 1] <= c.key
               THEN [c2 EXCEPT !.st = "threw"]
               ELSE [c2 EXCEPT !.key = Seek(c.table, c.sortedIds[i2 + 1])]

CursorSuccess ==
  /\ cursor.st = "open"
  /\ cursor' = onsuccess(cursor)
  /\ UNCHANGED <<ClientVars, indexedDB, instances, options, announcement,
                 conversation>>

CursorNext ==
  \/ \E table \in SUBSET Keys, ids \in IdLists : GetObjects(table, ids)
  \/ CursorSuccess

CursorSpec == DbInit /\ [][CursorNext]_vars

\* the keys of a set in ascending order
RECURSIVE Ascending(_)
Ascending(S) ==
  IF S = {} THEN <<>>
  ELSE LET m == CHOOSE x \in S : \A y \in S : x <= y
       IN <<m>> \o Ascending(S \ {m})

Range(s) == {s[k] : k \in DOMAIN s}

\* C33: once no event of the cursor is pending, callback was invoked exactly
\* once, with the stored records whose key is in ids, each once and in
\* ascending order of the keys
C33_GetObjectsOnce ==
  cursor.st \in {"done", "threw"}
    => /\ cursor.calls = 1
       /\ cursor.results = Ascending(cursor.table \cap Range(cursor.ids))

\* C33 without duplicates in ids
C33_DistinctIds ==
  /\ cursor.calls <= 1
  /\ (cursor.st \in {"done", "threw"}
        /\ Cardinality(Range(cursor.ids)) = Len(cursor.ids))
       => /\ cursor.calls = 1
          /\ cursor.results = Ascending(cursor.table \cap Range(cursor.ids))

\* C32: UserIdentity.load(id, client) on a client that has its DbManager
\* resolves the identity from one source: the callback of getObjects is
\* kept until the database is open, and then the identity is populated
\* from its record if the identities table holds one (no server request)
\* and loaded from the server if it holds none
C32_LoadOneSource ==
  [][/\ \A id \in RecIds :
          (dbManager /\ Load(id))
            => /\ loaded' \in {"found", "empty", "waiting"}
               /\ loaded' = "found"
                    => indexedDB[dbm.name]["identities"][id] # 0
               /\ loaded' = "empty"
                    => indexedDB[dbm.name]["identities"][id] = 0
     /\ (loaded = "waiting" /\ OpenSuccess)
          => loaded' \in {"found", "empty"}]_vars

\* ------------------------------------------ deferred operations (C38)
\* the callbacks that _writeObjects, deleteObjects and getObjects give to
\* onOpen, for one record of one table
Callbacks ==
  {[op |-> "write", table |-> "conversations",
    data |-> <<[id |-> 1, v |-> v]>>, id |-> 0] : v \in Vals}
  \cup {[op |-> o, table |-> "conversations", data |-> <<>>, id |-> 1] :
          o \in {"delete", "read"}}

\* a method of DbManager hands cb to onOpen
Issue(cb) ==
  /\ dbManager
  /\ dbm.isOpen \/ dbm.isDisabled \/ Len(dbm.waiting) < MaxDeferred
  /\ FinishDb(onOpen(World, cb))

\* 'open' is triggered on a DbManager that is open already (onComplete of
\* _onUpgradeNeeded is written to trigger it besides request.onsuccess):
\* the listeners of once('open') that are left run
OpenAgain ==
  /\ dbManager /\ dbm.isOpen
  /\ FinishDb(RunAll([World EXCEPT !.m.waiting = <<>>], dbm.waiting))

\* db.onversionchange: the database is closed
VersionChange ==
  /\ dbManager /\ dbm.isOpen
  /\ FinishDb([World EXCEPT !.m.isOpen = FALSE])

OpenNext ==
  \/ \E cb \in Callbacks : Issue(cb)
  \/ OpenSuccess
  \/ OpenAgain
  \/ VersionChange
  \/ Disable

OpenSpec == DbInit /\ [][OpenNext]_vars

\* C38: an operation issued on an enabled DbManager that is not open is
\* kept behind those that wait and changes nothing yet; when the database
\* opens the waiting operations run in the order they were issued and none
\* is left; a further open notification runs nothing; an operation issued
\* while the database is open runs at once
C38_DeferredRunOnce ==
  [][/\ \A cb \in Callbacks :
          (Issue(cb) /\ ~dbm.isDisabled)
            => IF dbm.isOpen
               THEN /\ indexedDB' = Run(World, cb).db
                    /\ loaded' = Run(World, cb).loaded
                    /\ dbm'.waiting = <<>>
               ELSE /\ indexedDB' = indexedDB
                    /\ dbm'.waiting = Append(dbm.waiting, cb)
     /\ OpenSuccess
          => /\ dbm'.isOpen /\ dbm'.waiting = <<>>
             /\ indexedDB' = RunAll(World, dbm.waiting).db
     /\ OpenAgain => (indexedDB' = indexedDB /\ dbm' = dbm)]_vars

\* a write and a read of one record wait, in that order, for the database
\* that is being opened
C38_Witness ==
  /\ dbm.opening /\ ~dbm.isOpen /\ ~dbm.isDisabled
  /\ Len(dbm.waiting) = 2
  /\ dbm.waiting[1].op = "write" /\ dbm.waiting[1].data[1].id = 1
  /\ dbm.waiting[2].op = "read" /\ dbm.waiting[2].id = 1
  /\ loaded = "waiting"

\* C40: the database that the DbManager of an authenticated, ready client
\* has opened, the one every read and write of the DbManager goes to, is
\* the one named for the user the client is connected as
C40_DatabaseOfCurrentUser ==
  (dbManager /\ isReady /\ isAuthenticated /\ ~dbm.isDisabled)
    => dbm.name = userId

\* ------------------------------------- Announcement.delete (C31)
\* result.data.id of a failed DELETE whose data is an object
DataIds == {"not_found", "other"}

\* delete with the announcement looked up again after every failure
deleted_always(a, r, id) ==
  IF ~r.success THEN [a EXCEPT !.loads = @ + 1] ELSE a

\* the callback delete() gives to _xhr: 'if (!result.success &&
\* (!result.data || result.data.id !== 'not_found')) Syncable.load(id,
\* client)'
deleted(a, r, id) ==
  IF ~r.success /\ (~r.isObject \/ id # "not_found")
  THEN [a EXCEPT !.loads = @ + 1]
  ELSE a

\* the response to the DELETE of the announcement, the one request of the
\* queue: as SyncResponse, with the callback given by delete()
DeleteResponse(r, id) ==
  \E k \in DOMAIN queue :
    /\ queue[k].st = "inflight"
    /\ r \in Results("op")
    /\ r.success \/ ~r.isObject => id = "other"
    /\ LET c == _xhrResult(Client, r, "op")
           a == IF c.called THEN deleted(announcement, r, id)
                ELSE announcement
       IN IF isDestroyed
          THEN /\ queue' = [queue EXCEPT ![k].st = "queued"]
               /\ FinishClient(Client)
               /\ ended' = NoEnd
               /\ announcement' = announcement
          ELSE IF r.status = 401
          THEN /\ queue' = [queue EXCEPT ![k].st = "queued"]
               /\ FinishClient(c)
               /\ ended' = Ended(queue[k], c, r, FALSE)
               /\ announcement' = a
          ELSE IF r.status \in GatewayStatus
                  /\ queue[k].attempts <= SyncRetryBound
          THEN /\ queue' = [queue EXCEPT ![k].st = "queued"]
               /\ FinishClient(Client)
               /\ ended' = NoEnd
               /\ announcement' = announcement
          ELSE /\ queue' = Remove(IF r.success THEN queue
                                  ELSE BlockDependents(queue, k), k)
               /\ FinishClient(c)
               /\ ended' = Ended(queue[k], c, r, TRUE)
               /\ announcement' = a
    /\ UNCHANGED <<authTimers, xhrs, conversation, cursor>>

\* a ready client that holds an announcement and deletes it
DeleteNext ==
  \/ AnnouncementCreate
  \/ AnnouncementSend
  \/ AnnouncementDelete
  \/ SyncDispatch
  \/ \E r \in AllResults, id \in DataIds : DeleteResponse(r, id)

DeleteSpec == DbInit /\ [][DeleteNext]_vars

\* C31: delete() on an announcement that is not destroyed destroys it at
\* once and submits exactly one request, the DELETE; on a destroyed one it
\* throws isDestroyed and submits nothing; when the callback of the DELETE
\* is given a failure other than not_found the announcement is loaded again
\* from the server, and when it is given a success or a not_found failure it
\* is not
C31_DeleteAndReload ==
  [][/\ AnnouncementDelete
          => IF announcement.isDestroyed
             THEN /\ announcement'.threw = "isDestroyed"
                  /\ queue' = queue /\ xhrs' = xhrs
                  /\ announcement'.loads = announcement.loads
             ELSE /\ announcement'.isDestroyed
                  /\ announcement'.threw = ""
                  /\ Len(queue') = Len(queue) + 1 /\ xhrs' = xhrs
                  /\ queue'[Len(queue')].st = "queued"
                  /\ announcement'.loads = announcement.loads
     /\ \A r \in AllResults, id \in DataIds :
          DeleteResponse(r, id)
            => announcement'.loads =
                 IF /\ ended'.cb # 0
                    /\ ~r.success
                    /\ ~(r.isObject /\ id = "not_found")
                 THEN announcement.loads + 1
                 ELSE announcement.loads]_vars

\* the DELETE of the destroyed announcement has failed for good with a 404
\* that is not a not_found, and the announcement was loaded again
C31_Witness ==
  /\ announcement.isDestroyed /\ announcement.last = "delete"
  /\ announcement.loads = 1
  /\ ended.kind = "op" /\ ended.cb = 404
  /\ queue = <<>>

====
